---------------------------- MODULE Spec2Model ----------------------------
(***************************************************************************)
(* pybuildinglink: the token store (BuildingLinkAuth), the token           *)
(* refresher, the username/password login flow and the authenticated       *)
(* request layer (BuildingLinkClient._request).                            *)
(*                                                                         *)
(* Every coroutine is cut at its await points that suspend (the HTTP       *)
(* calls): what runs between two of them is one action, as asyncio runs    *)
(* it.  The server's answers and the clock are the environment.            *)
(*                                                                         *)
(* The auth object is built either by BuildingLinkClient.__init__, which   *)
(* calls BuildingLinkAuth(refresh_token) (viaClient = TRUE), or directly   *)
(* by BuildingLinkAuth(username, password, refresh_token).  _request reads *)
(* nothing of the client but self._auth, the session and the device id,    *)
(* so it is modelled over every auth object BuildingLinkAuth.__init__      *)
(* accepts, the client-built one included.                                 *)
(*                                                                         *)
(* Four specifications share the actions.  Spec (FairSpec with fairness)   *)
(* is the auth layer under _request: every auth object, every public       *)
(* method of BuildingLinkAuth, the client built with default arguments.    *)
(* ClientSpec is the client layer: any device_id and session arguments,    *)
(* async_set_property, async_get_contacts and async_close, over the auth   *)
(* objects a client can hold (none has a password, so the login flow never *)
(* starts there).  ConcSpec runs two _request coroutines of one client on  *)
(* the same event loop.  HelperSpec calls the module-level helpers of      *)
(* auth.py on pages drawn from bounded sets.                               *)
(***************************************************************************)
EXTENDS Integers, Sequences, FiniteSets, TLC

(***************************************************************************)
(* Python values.  NONE is None, ABSENT a key missing from a dict, "" the  *)
(* empty string.                                                           *)
(***************************************************************************)
NONE == "None"
ABSENT == "absent"

Truthy(v) == v \notin {NONE, ""}

\* bounds of the model
MaxCalls == 2
MaxTicks == 1
StartTime == 100

\* the coroutines (tasks) that call into the library
SeqProcs == {1}
ConcProcs == {1, 2}

\* the steps the clock may jump by (seconds): one second, which ends the
\* validity of a token of 31 seconds, and 870, which ends that of one of 900
TickSteps == {1, 870}

\* program constants
TokenBuffer == 30
LoginExpiry == 900
RefreshDefaultExpiry == 900

\* constructor arguments
Usernames == {NONE, "u"}
Passwords == {NONE, "p"}
CtorRefreshTokens == {NONE, "r0"}
ClientRefreshTokens == {"r0", ""}

\* what the server may answer
AccessTokens == {"a1", "a2"}
RefreshTokens == {"r1"}
ExpiresIn == {31}
TokenStatuses == {200, 400}
ResourceStatuses == {200, 400, 401, 500}
JsonBodies == {"j1", "j2"}

\* a 200 body of the token endpoint: a JSON object
TokenBodies ==
  [access_token : AccessTokens \cup {ABSENT, ""},
   refresh_token : RefreshTokens \cup {ABSENT, NONE},
   expires_in : {<<>>} \cup {<<e>> : e \in ExpiresIn}]

\* recorded in place of a status when the request raised aiohttp.ClientError
TransportError == -1

EmptyBody == [access_token |-> ABSENT, refresh_token |-> ABSENT, expires_in |-> <<>>]

\* dict.get(key, default)
DictGet(v, default) == IF v = ABSENT THEN default ELSE v

VARIABLES
  constructed,      \* FALSE when the constructor raised AuthenticationError
  viaClient,        \* the auth object was built by BuildingLinkClient.__init__
  ctor_refresh,     \* the refresh_token argument of the constructor called
  auth_args,        \* the arguments BuildingLinkAuth.__init__ was called with
  ctor_device,      \* the device_id argument of BuildingLinkClient.__init__
  username, password, refresh_token, access_token, token_expiry,
  device_id, session, owns_session, property_id, property_legacy_id, user_id,
  created,          \* the number of sessions _get_session has created
  closed,           \* the sessions closed so far, each with who closed it
  now, ticks, calls,
  task,             \* per coroutine: its position, locals, result and history
  fn_arg, fn_result \* a call of a module-level helper: its argument, its result

authVars == <<username, password, refresh_token, access_token, token_expiry>>
ctorVars == <<constructed, viaClient, ctor_refresh, auth_args, ctor_device>>
sessionVars == <<session, owns_session, created, closed>>
propertyVars == <<property_id, property_legacy_id, user_id>>
clientVars == <<device_id, sessionVars, propertyVars>>
pureVars == <<fn_arg, fn_result>>
vars == <<ctorVars, authVars, clientVars, now, ticks, calls, task, pureVars>>

(***************************************************************************)
(* A task.  pc is its position, entry the method the caller invoked,       *)
(* outcome/retval/apiStatus how the call ended.  result and callback_form  *)
(* are locals of async_refresh_token and async_login_with_credentials.     *)
(* The rest is history.  Of the current _request: bearers are the tokens   *)
(* its resource calls carried, statuses the resource responses, acq how    *)
(* each token async_get_access_token returned was obtained and which it   *)
(* was, lastJson the body of the latest resource response.  Of the         *)
(* current call of an auth method: grants are the refresh tokens POSTed to *)
(* the token endpoint, authHttp the number of HTTP requests sent to the    *)
(* auth hosts, refreshStatus the token endpoint's answer to the refresh    *)
(* grant (TransportError when the POST raised), refreshed the fate of the  *)
(* refresh async_get_access_token tried, loginRan whether the login flow   *)
(* ran, postRejected that the credentials POST was answered 200 with a     *)
(* body that says "invalid" or "error", fallback what the token endpoint   *)
(* gave _try_token_from_session ("token", or "nothing" for a status other  *)
(* than 200, a body without a usable access_token, or an exception), got  *)
(* the access_token of the 200 response async_refresh_token stored (NONE   *)
(* when it stored none).  url and params_l are arguments of                *)
(* _request: the property id in the URL and the "l" parameter (NONE when   *)
(* the accessor has neither); sent is, for each resource call, the         *)
(* device-id parameter, the URL and the "l" parameter it carried.          *)
(***************************************************************************)
IdleTask ==
  [pc |-> "idle", entry |-> "none", outcome |-> "none", retval |-> NONE,
   apiStatus |-> 0, result |-> EmptyBody, callback_form |-> <<>>,
   bearers |-> <<>>, statuses |-> <<>>, acq |-> <<>>, grants |-> <<>>,
   lastJson |-> NONE, authHttp |-> 0, refreshStatus |-> 0,
   refreshed |-> "none", loginRan |-> FALSE, postRejected |-> FALSE,
   fallback |-> "none", got |-> NONE, url |-> NONE, params_l |-> NONE,
   sent |-> <<>>]

AuthNow ==
  [username |-> username, password |-> password, refresh_token |-> refresh_token,
   access_token |-> access_token, token_expiry |-> token_expiry]

Store(a) == <<a.access_token, a.token_expiry, a.refresh_token>>

\* mutant: the constructor accepts any arguments
AuthInit_NoCheck(u, pw, rt) ==
  [ok |-> TRUE, username |-> u, password |-> pw, refresh_token |-> rt,
   access_token |-> NONE, token_expiry |-> 0]

\* mutant: the constructor forgets the refresh token
AuthInit_DropsRefreshToken(u, pw, rt) ==
  IF ~Truthy(u) /\ ~Truthy(rt)
  THEN [ok |-> FALSE, username |-> NONE, password |-> NONE, refresh_token |-> NONE,
        access_token |-> NONE, token_expiry |-> 0]
  ELSE [ok |-> TRUE, username |-> u, password |-> pw, refresh_token |-> NONE,
        access_token |-> NONE, token_expiry |-> 0]

\* BuildingLinkAuth.__init__
AuthInit(u, pw, rt) ==
  IF ~Truthy(u) /\ ~Truthy(rt)
  THEN [ok |-> FALSE, username |-> NONE, password |-> NONE, refresh_token |-> NONE,
        access_token |-> NONE, token_expiry |-> 0]
  ELSE [ok |-> TRUE, username |-> u, password |-> pw, refresh_token |-> rt,
        access_token |-> NONE, token_expiry |-> 0]

\* BuildingLinkClient.__init__: self._auth = BuildingLinkAuth(refresh_token)
ClientInit(rt) == AuthInit(rt, NONE, NONE)

\* an aiohttp.ClientSession object: none, the one the caller supplied, or
\* the n-th one _get_session created
NoSession == [kind |-> "none", n |-> 0]
CallerSession == [kind |-> "caller", n |-> 0]
OwnSession(n) == [kind |-> "own", n |-> n]

\* what uuid.uuid4() may return at client.py 55
Uuids == {"g1"}

\* the device_id and session arguments of BuildingLinkClient.__init__
DeviceArgs == {NONE, "d1"}
SessionArgs == {NoSession, CallerSession}

\* no module-level helper is being called
NoCall == [fn |-> "none", arg |-> <<>>]
Pending == [done |-> FALSE, ok |-> FALSE, exc |-> NONE, value |-> <<>>]

\* the objects after construction
Constructed(a, args, byClient, rt, dev, sess, uuid) ==
  /\ constructed = a.ok
  /\ viaClient = byClient
  /\ ctor_refresh = rt
  /\ auth_args = args
  /\ ctor_device = dev
  /\ username = a.username
  /\ password = a.password
  /\ refresh_token = a.refresh_token
  /\ access_token = a.access_token
  /\ token_expiry = a.token_expiry
  /\ device_id = (IF Truthy(dev) THEN dev ELSE uuid)       \* client.py 55
  /\ session = sess                                       \* client.py 56
  /\ owns_session = (sess = NoSession)                    \* client.py 57
  /\ property_id = NONE
  /\ property_legacy_id = NONE
  /\ user_id = NONE
  /\ created = 0
  /\ closed = {}
  /\ now = StartTime
  /\ ticks = 0
  /\ calls = 0
  /\ task = [p \in ConcProcs |-> IdleTask]

InitWith(a, args, byClient, rt, dev, sess, uuid) ==
  /\ Constructed(a, args, byClient, rt, dev, sess, uuid)
  /\ fn_arg = NoCall
  /\ fn_result = Pending

\* the auth objects: built by the client's constructor, or directly
AuthObjects(dev, sess) ==
  \/ \E rt \in ClientRefreshTokens, uuid \in Uuids :
       InitWith(ClientInit(rt), <<rt, NONE, NONE>>, TRUE, rt, dev, sess, uuid)
  \/ \E u \in Usernames, pw \in Passwords, rt \in CtorRefreshTokens, uuid \in Uuids :
       InitWith(AuthInit(u, pw, rt), <<u, pw, rt>>, FALSE, rt, dev, sess, uuid)

\* the auth layer: the client is built with its default arguments
Init == AuthObjects(NONE, NoSession)

\* mutant: the buffer is forgotten
IsTokenValid_NoBuffer(tok, expiry, t) == tok # NONE /\ t < expiry

\* BuildingLinkAuth.is_token_valid
IsTokenValid(tok, expiry, t) == tok # NONE /\ t < expiry - TokenBuffer


(***************************************************************************)
(* How a call ends, and what a callee hands back to its caller.  A segment *)
(* of code is a function from the auth object a and the task t to the      *)
(* task after it; a callee's return or exception continues in the caller   *)
(* within the same step, as no await suspends in between.                  *)
(***************************************************************************)
Raise(t, exc) ==
  [t EXCEPT !.pc = "done", !.outcome = exc, !.callback_form = <<>>,
            !.result = IF t.entry = "refresh" THEN @ ELSE EmptyBody]

Return(t, v) ==
  [t EXCEPT !.pc = "done", !.outcome = "returned", !.retval = v,
            !.callback_form = <<>>,
            !.result = IF t.entry = "refresh" THEN @ ELSE EmptyBody]

\* mutant: the retry is sent without the device-id parameter
SendResource_RetryDropsDevice(t, tok) ==
  [t EXCEPT !.pc = IF Len(t.bearers) = 0 THEN "req_wait1" ELSE "req_wait2",
            !.bearers = Append(@, tok),
            !.sent = Append(@, [device |-> IF Len(t.bearers) = 0 THEN device_id ELSE NONE,
                                url |-> t.url, l |-> t.params_l])]

\* _request: headers and params are built and session.request is entered,
\* for the first attempt (client.py 97-110) or the retry (114-117)
SendResource(t, tok) ==
  [t EXCEPT !.pc = IF Len(t.bearers) = 0 THEN "req_wait1" ELSE "req_wait2",
            !.bearers = Append(@, tok),
            !.sent = Append(@, [device |-> device_id,          \* client.py 106
                                url |-> t.url, l |-> t.params_l])]

\* async_get_access_token returns tok to its caller
GotToken(t, tok, how) ==
  LET t1 == [t EXCEPT !.acq = Append(@, <<how, tok>>), !.callback_form = <<>>,
                      !.result = EmptyBody]
  IN  IF t.entry = "request" THEN SendResource(t1, tok) ELSE Return(t1, tok)

\* async_login_with_credentials up to its first GET (auth.py 101-106)
LoginStart(a, t) ==
  IF ~Truthy(a.username) \/ ~Truthy(a.password)
  THEN Raise(t, "AuthenticationError")
  ELSE [t EXCEPT !.pc = "login_page", !.authHttp = @ + 1, !.loginRan = TRUE]

\* async_login_with_credentials returns tok to its caller
LoginReturn(t, tok) ==
  IF t.entry = "login" THEN Return(t, tok) ELSE GotToken(t, tok, "login")

\* mutant: a failed acquisition is swallowed and the call goes out anyway
LoginFallback_SendsAnyway(a, t) ==
  IF Truthy(a.username) /\ Truthy(a.password)
  THEN LoginStart(a, t)
  ELSE IF t.entry = "request" THEN SendResource(t, NONE)
       ELSE Raise(t, "AuthenticationError")

\* mutant: with no method left the stored token is returned, valid or not
LoginFallback_ReturnsStoredToken(a, t) ==
  IF Truthy(a.username) /\ Truthy(a.password)
  THEN LoginStart(a, t)
  ELSE GotToken(t, a.access_token, "cached")

\* async_get_access_token, the fallback (auth.py 280-284)
LoginFallback(a, t) ==
  IF Truthy(a.username) /\ Truthy(a.password)
  THEN LoginStart(a, t)
  ELSE Raise(t, "AuthenticationError")

\* mutant: the grant is POSTed without looking at the refresh token
RefreshStart_NoGuard(a, t) ==
  [t EXCEPT !.pc = "refresh_wait", !.authHttp = @ + 1,
            !.grants = Append(@, a.refresh_token)]

\* async_refresh_token up to its POST (auth.py 234-248)
RefreshStart(a, t) ==
  IF ~Truthy(a.refresh_token)
  THEN Raise(t, "AuthenticationError")
  ELSE [t EXCEPT !.pc = "refresh_wait", !.authHttp = @ + 1,
                 !.grants = Append(@, a.refresh_token)]

\* mutant: the login flow is preferred to the refresh token
GetAccessToken_LoginFirst(a, t0, tnow) ==
  LET t == [t0 EXCEPT !.grants = <<>>, !.authHttp = 0, !.refreshStatus = 0,
                      !.refreshed = "none", !.loginRan = FALSE,
                      !.fallback = "none", !.got = NONE]
  IN  IF IsTokenValid(a.access_token, a.token_expiry, tnow)
      THEN GotToken(t, a.access_token, "cached")
      ELSE IF Truthy(a.username) /\ Truthy(a.password)
           THEN LoginStart(a, t)
           ELSE IF Truthy(a.refresh_token)
                THEN RefreshStart(a, t)
                ELSE Raise(t, "AuthenticationError")

\* mutant: a stored refresh token is always used, valid token or not
GetAccessToken_AlwaysRefreshes(a, t0, tnow) ==
  LET t == [t0 EXCEPT !.grants = <<>>, !.authHttp = 0, !.refreshStatus = 0,
                      !.refreshed = "none", !.loginRan = FALSE,
                      !.fallback = "none", !.got = NONE]
  IN  IF Truthy(a.refresh_token)
      THEN RefreshStart(a, t)
      ELSE IF IsTokenValid(a.access_token, a.token_expiry, tnow)
           THEN GotToken(t, a.access_token, "cached")
           ELSE LoginFallback(a, t)

\* async_get_access_token from its first line (auth.py 267-282)
GetAccessToken(a, t0, tnow) ==
  LET t == [t0 EXCEPT !.grants = <<>>, !.authHttp = 0, !.refreshStatus = 0,
                      !.refreshed = "none", !.loginRan = FALSE,
                      !.fallback = "none", !.got = NONE]  \* a new call
  IN  IF IsTokenValid(a.access_token, a.token_expiry, tnow)
      THEN GotToken(t, a.access_token, "cached")
      ELSE IF Truthy(a.refresh_token)
           THEN RefreshStart(a, t)
           ELSE LoginFallback(a, t)

\* async_refresh_token raised exc (auth.py 251, 256): its caller's handling
RefreshRaised(a, t, exc) ==
  IF t.entry = "refresh" THEN Raise(t, exc)
  ELSE IF exc = "AuthenticationError"
       THEN LoginFallback(a, [t EXCEPT !.refreshed = "failed",    \* auth.py 277-282
                                       !.result = EmptyBody])
       ELSE Raise(t, exc)

\* mutant: the refresh token is taken as _try_token_from_session takes it
RefreshStore_DropsRefreshToken(a, body, tnow) ==
  [a EXCEPT !.access_token = body.access_token,
            !.refresh_token = DictGet(body.refresh_token, NONE),
            !.token_expiry =
               tnow + (IF body.expires_in = <<>> THEN RefreshDefaultExpiry
                       ELSE body.expires_in[1])]

\* mutant: a response is dropped when an earlier one left a valid token
RefreshStore_KeepsFirst(a, body, tnow) ==
  IF IsTokenValid(a.access_token, a.token_expiry, tnow) THEN a
  ELSE [a EXCEPT !.access_token = body.access_token,
                 !.refresh_token = DictGet(body.refresh_token, a.refresh_token),
                 !.token_expiry =
                    tnow + (IF body.expires_in = <<>> THEN RefreshDefaultExpiry
                            ELSE body.expires_in[1])]

\* async_refresh_token, the store's update from a 200 body (auth.py 258-260)
RefreshStore(a, body, tnow) ==
  [a EXCEPT !.access_token = body.access_token,
            !.refresh_token = DictGet(body.refresh_token, a.refresh_token),
            !.token_expiry =
               tnow + (IF body.expires_in = <<>> THEN RefreshDefaultExpiry
                       ELSE body.expires_in[1])]

\* async_refresh_token returned (auth.py 261): its caller's handling
RefreshReturned(a, t) ==
  IF t.entry = "refresh" THEN Return(t, "result")
  ELSE LET t1 == [t EXCEPT !.refreshed = "ok", !.result = EmptyBody]
       IN  IF Truthy(a.access_token)                      \* auth.py 275-276
           THEN GotToken(t1, a.access_token, "refresh")
           ELSE LoginFallback(a, t1)

(***************************************************************************)
(* The login flow's pure helpers.  Bytes and text are sequences of         *)
(* characters; an HTML document is the sequence of its input elements.     *)
(***************************************************************************)
\* bytes.find(pat, start): the lowest 0-based index >= start, or -1
Find(content, pat, start) ==
  LET hits == {i \in start..(Len(content) - Len(pat)) :
                 \A k \in 1..Len(pat) : content[i + k] = pat[k]}
  IN  IF hits = {} THEN -1 ELSE CHOOSE i \in hits : \A j \in hits : i <= j

AuthMarker == <<"h", "t", "t", "p", "s", ":", "/", "/", "a", "u", "t", "h">>
DqSemi == <<"\"", ";">>
SqSemi == <<"'", ";">>

\* bytes.decode("utf-8").  A byte is written as its ASCII character; "C3"
\* and "A9" are the bytes 0xC3 and 0xA9, which decode together to U+00E9 and
\* are invalid alone
RECURSIVE Utf8Decode(_)
Utf8Decode(b) ==
  IF b = <<>> THEN [ok |-> TRUE, text |-> <<>>]
  ELSE IF b[1] = "C3"
       THEN IF Len(b) >= 2 /\ b[2] = "A9"
            THEN LET r == Utf8Decode(Tail(Tail(b)))
                 IN  [ok |-> r.ok, text |-> IF r.ok THEN <<"U+00E9">> \o r.text ELSE <<>>]
            ELSE [ok |-> FALSE, text |-> <<>>]
       ELSE IF b[1] = "A9" THEN [ok |-> FALSE, text |-> <<>>]
            ELSE LET r == Utf8Decode(Tail(b))
                 IN  [ok |-> r.ok, text |-> IF r.ok THEN <<b[1]>> \o r.text ELSE <<>>]

\* mutant: the terminator is searched from the start of the page
ExtractAuthRedirectUrl_EndFromZero(content) ==
  LET start == Find(content, AuthMarker, 0)
      end1 == Find(content, DqSemi, 0)
      end == IF end1 = -1 THEN Find(content, SqSemi, 0) ELSE end1
      d == Utf8Decode(SubSeq(content, start + 1, end))
  IN  IF start = -1 THEN [ok |-> FALSE, exc |-> "AuthenticationError", url |-> <<>>]
      ELSE IF end = -1 THEN [ok |-> FALSE, exc |-> "AuthenticationError", url |-> <<>>]
      ELSE IF ~d.ok THEN [ok |-> FALSE, exc |-> "UnicodeDecodeError", url |-> <<>>]
      ELSE [ok |-> TRUE, exc |-> NONE, url |-> d.text]

\* _extract_auth_redirect_url: ok is FALSE where it raises exc
ExtractAuthRedirectUrl(content) ==
  LET start == Find(content, AuthMarker, 0)
      end1 == Find(content, DqSemi, start)
      end == IF end1 = -1 THEN Find(content, SqSemi, start) ELSE end1
      d == Utf8Decode(SubSeq(content, start + 1, end))
  IN  IF start = -1 THEN [ok |-> FALSE, exc |-> "AuthenticationError", url |-> <<>>]
      ELSE IF end = -1 THEN [ok |-> FALSE, exc |-> "AuthenticationError", url |-> <<>>]
      ELSE IF ~d.ok THEN [ok |-> FALSE, exc |-> "UnicodeDecodeError", url |-> <<>>]
      ELSE [ok |-> TRUE, exc |-> NONE, url |-> d.text]

\* _get_hidden_inputs: the dict of //form//input[@type="hidden"] that have a
\* name; ok is FALSE where el.attrib["value"] raises KeyError
GetHiddenInputs(doc) ==
  LET hidden == {i \in 1..Len(doc) : doc[i].in_form /\ doc[i].type = "hidden"}
      named == {i \in hidden : doc[i].name # ABSENT}
      names == {doc[i].name : i \in named}
      last(n) == CHOOSE i \in named :
                   doc[i].name = n /\ \A j \in named : doc[j].name = n => j <= i
  IN  IF \E i \in named : doc[i].value = ABSENT
      THEN [ok |-> FALSE, form |-> <<>>]
      ELSE [ok |-> TRUE, form |-> [n \in names |-> doc[last(n)].value]]

\* mutant: the code field is preferred to the access_token field
ExtractAccessTokenFromForm_CodeFirst(form_data) ==
  IF "code" \in DOMAIN form_data THEN form_data["code"]
  ELSE IF "access_token" \in DOMAIN form_data THEN form_data["access_token"]
  ELSE IF "id_token" \in DOMAIN form_data THEN form_data["id_token"]
  ELSE NONE

\* _extract_access_token_from_form
ExtractAccessTokenFromForm(form_data) ==
  IF "access_token" \in DOMAIN form_data THEN form_data["access_token"]
  ELSE IF "code" \in DOMAIN form_data THEN form_data["code"]
  ELSE IF "id_token" \in DOMAIN form_data THEN form_data["id_token"]
  ELSE NONE

\* str.lower, on the letters the pages use
LowerChar(c) ==
  CASE c = "I" -> "i" [] c = "E" -> "e" [] c = "R" -> "r" [] c = "O" -> "o"
    [] OTHER -> c

Lower(text) == [i \in 1..Len(text) |-> LowerChar(text[i])]

\* mutant: the failed-login test forgets lower()
LooksFailed_CaseSensitive(text) ==
  \/ Find(text, <<"i", "n", "v", "a", "l", "i", "d">>, 0) # -1
  \/ Find(text, <<"e", "r", "r", "o", "r">>, 0) # -1

\* the failed-login test of auth.py 141
LooksFailed(text) ==
  \/ Find(Lower(text), <<"i", "n", "v", "a", "l", "i", "d">>, 0) # -1
  \/ Find(Lower(text), <<"e", "r", "r", "o", "r">>, 0) # -1

Input(f, ty, n, v) == [in_form |-> f, type |-> ty, name |-> n, value |-> v]

\* what the login hosts may answer
LoginPages ==
  { <<"x", "\"">> \o AuthMarker \o <<"/", "p", "\"", ";">>,
    <<"'">> \o AuthMarker \o <<"'", ";">>,
    AuthMarker \o <<"/", "p">>,
    AuthMarker \o <<"C3", "\"", ";">>,
    <<"n", "o">> }

Docs ==
  { <<>>,
    << Input(TRUE, "hidden", "state", "s") >>,
    << Input(TRUE, "hidden", "id_token", "a1"), Input(TRUE, "hidden", "code", "a2") >>,
    << Input(TRUE, "hidden", "access_token", "a1"), Input(TRUE, "hidden", "code", "a2") >>,
    << Input(TRUE, "hidden", "access_token", ""), Input(TRUE, "hidden", "code", "a2") >>,
    << Input(TRUE, "hidden", "code", ABSENT) >>,
    << Input(TRUE, "text", "access_token", "a1"), Input(FALSE, "hidden", "code", "a2"),
       Input(TRUE, "hidden", ABSENT, "a2") >> }

Banners == { <<>>, <<"I", "n", "v", "a", "l", "i", "d">>, <<"E", "R", "R", "O", "R">>,
             <<"o", "k">> }

Texts == [banner : Banners, doc : Docs]

LoginStatuses == {200, 302, 500}

\* mutant: the KeyError of _get_hidden_inputs is not wrapped
CallbackParsed_LeaksKeyError(t, doc) ==
  LET h == GetHiddenInputs(doc)
  IN  IF ~h.ok THEN Raise(t, "KeyError")
      ELSE IF DOMAIN h.form = {} THEN Raise(t, "AuthenticationError")
      ELSE [t EXCEPT !.pc = "login_cb", !.callback_form = h.form, !.authHttp = @ + 1]

\* the callback form is scraped and, when not empty, POSTed to the OIDC
\* callback (auth.py 143-160)
CallbackParsed(t, doc) ==
  LET h == GetHiddenInputs(doc)
  IN  IF ~h.ok THEN Raise(t, "AuthenticationError")              \* auth.py 201-202
      ELSE IF DOMAIN h.form = {} THEN Raise(t, "AuthenticationError")
      ELSE [t EXCEPT !.pc = "login_cb", !.callback_form = h.form, !.authHttp = @ + 1]

\* the end of async_login_with_credentials (auth.py 187-195)
LoginFinish(a, t, tok, tnow) ==
  IF ~Truthy(tok)
  THEN [a |-> a, t |-> Raise(t, "AuthenticationError")]
  ELSE [a |-> [a EXCEPT !.access_token = tok, !.token_expiry = tnow + LoginExpiry],
        t |-> LoginReturn(t, tok)]

\* _try_token_from_session after a 200 (auth.py 221-223)
SessionTokenStore(a, body) ==
  [a EXCEPT !.refresh_token = DictGet(body.refresh_token, NONE)]

Commit(p, a, t) ==
  /\ username' = a.username
  /\ password' = a.password
  /\ refresh_token' = a.refresh_token
  /\ access_token' = a.access_token
  /\ token_expiry' = a.token_expiry
  /\ task' = [task EXCEPT ![p] = t]

CanCall(p) ==
  /\ constructed
  /\ task[p].pc \in {"idle", "done"}
  /\ calls < MaxCalls

NewTask(e) == [IdleTask EXCEPT !.entry = e]

\* session.closed
IsClosed(s) == \E c \in closed : c.s = s

\* _get_session (client.py 79-82)
GetSession ==
  IF session = NoSession \/ IsClosed(session)
  THEN /\ session' = OwnSession(created + 1)
       /\ owns_session' = TRUE
       /\ created' = created + 1
       /\ closed' = closed
  ELSE UNCHANGED sessionVars

\* a resource accessor calls _request, which runs to its first suspension
CallRequest(p) ==
  /\ CanCall(p)
  /\ calls' = calls + 1
  /\ GetSession
  /\ Commit(p, AuthNow, GetAccessToken(AuthNow, NewTask("request"), now))
  /\ UNCHANGED <<ctorVars, device_id, propertyVars, pureVars, now, ticks>>

CallGetAccessToken(p) ==
  /\ CanCall(p)
  /\ calls' = calls + 1
  /\ Commit(p, AuthNow, GetAccessToken(AuthNow, NewTask("get_token"), now))
  /\ UNCHANGED <<ctorVars, clientVars, pureVars, now, ticks>>

CallRefreshToken(p) ==
  /\ CanCall(p)
  /\ calls' = calls + 1
  /\ Commit(p, AuthNow, RefreshStart(AuthNow, NewTask("refresh")))
  /\ UNCHANGED <<ctorVars, clientVars, pureVars, now, ticks>>

CallLogin(p) ==
  /\ CanCall(p)
  /\ calls' = calls + 1
  /\ Commit(p, AuthNow, LoginStart(AuthNow, NewTask("login")))
  /\ UNCHANGED <<ctorVars, clientVars, pureVars, now, ticks>>

\* the token endpoint answers the refresh grant with a status other than 200
RefreshRejected(p) ==
  /\ task[p].pc = "refresh_wait"
  /\ \E s \in TokenStatuses \ {200} :
       Commit(p, AuthNow, RefreshRaised(AuthNow, [task[p] EXCEPT !.refreshStatus = s],
                                        "AuthenticationError"))
  /\ UNCHANGED <<ctorVars, clientVars, pureVars, now, ticks, calls>>

\* the POST of the refresh grant raises aiohttp.ClientError
RefreshTransportError(p) ==
  /\ task[p].pc = "refresh_wait"
  /\ Commit(p, AuthNow, RefreshRaised(AuthNow, [task[p] EXCEPT !.refreshStatus = TransportError],
                                     "AuthenticationError"))
  /\ UNCHANGED <<ctorVars, clientVars, pureVars, now, ticks, calls>>

\* the token endpoint answers 200 with a JSON object
RefreshAnswered(p) ==
  /\ task[p].pc = "refresh_wait"
  /\ \E body \in TokenBodies :
       LET t1 == [task[p] EXCEPT !.result = body, !.refreshStatus = 200]
       IN  IF body.access_token = ABSENT
           THEN Commit(p, AuthNow, RefreshRaised(AuthNow, t1, "KeyError"))
           ELSE LET a1 == RefreshStore(AuthNow, body, now)
                IN  Commit(p, a1, RefreshReturned(a1, [t1 EXCEPT !.got = body.access_token]))
  /\ UNCHANGED <<ctorVars, clientVars, pureVars, now, ticks, calls>>

\* mutant: a 500 is retried like a 401
FirstResponse_RetriesOn500(p) ==
  /\ task[p].pc = "req_wait1"
  /\ \E s \in ResourceStatuses, j \in JsonBodies :
       LET t1 == [task[p] EXCEPT !.statuses = Append(@, s), !.lastJson = j]
       IN  IF s \in {401, 500}
           THEN Commit(p, AuthNow, GetAccessToken(AuthNow, t1, now))
           ELSE IF s >= 400
                THEN Commit(p, AuthNow, Raise([t1 EXCEPT !.apiStatus = s], "APIError"))
                ELSE Commit(p, AuthNow, Return(t1, j))
  /\ UNCHANGED <<ctorVars, clientVars, pureVars, now, ticks, calls>>

\* _request, the first response (client.py 111-125)
FirstResponse(p) ==
  /\ task[p].pc = "req_wait1"
  /\ \E s \in ResourceStatuses, j \in JsonBodies :
       LET t1 == [task[p] EXCEPT !.statuses = Append(@, s), !.lastJson = j]
       IN  IF s = 401
           THEN Commit(p, AuthNow, GetAccessToken(AuthNow, t1, now))
           ELSE IF s >= 400
                THEN Commit(p, AuthNow, Raise([t1 EXCEPT !.apiStatus = s], "APIError"))
                ELSE Commit(p, AuthNow, Return(t1, j))
  /\ UNCHANGED <<ctorVars, clientVars, pureVars, now, ticks, calls>>

\* mutant: a 401 to the retry is retried again
RetryResponse_RetriesAgain(p) ==
  /\ task[p].pc = "req_wait2"
  /\ \E s \in ResourceStatuses, j \in JsonBodies :
       LET t1 == [task[p] EXCEPT !.statuses = Append(@, s), !.lastJson = j]
       IN  IF s = 401 /\ Len(t1.statuses) < 3
           THEN Commit(p, AuthNow, GetAccessToken(AuthNow, t1, now))
           ELSE IF s >= 400
                THEN Commit(p, AuthNow, Raise([t1 EXCEPT !.apiStatus = s], "APIError"))
                ELSE Commit(p, AuthNow, Return(t1, j))
  /\ UNCHANGED <<ctorVars, clientVars, pureVars, now, ticks, calls>>

\* _request, the response to the retry (client.py 118-121)
RetryResponse(p) ==
  /\ task[p].pc = "req_wait2"
  /\ \E s \in ResourceStatuses, j \in JsonBodies :
       LET t1 == [task[p] EXCEPT !.statuses = Append(@, s), !.lastJson = j]
       IN  IF s >= 400
           THEN Commit(p, AuthNow, Raise([t1 EXCEPT !.apiStatus = s], "APIError"))
           ELSE Commit(p, AuthNow, Return(t1, j))
  /\ UNCHANGED <<ctorVars, clientVars, pureVars, now, ticks, calls>>

\* session.request raises aiohttp.ClientError, which _request lets through
ResourceTransportError(p) ==
  /\ task[p].pc \in {"req_wait1", "req_wait2"}
  /\ Commit(p, AuthNow, Raise(task[p], "ClientError"))
  /\ UNCHANGED <<ctorVars, clientVars, pureVars, now, ticks, calls>>

\* the positions whose next step reads the clock (is_token_valid, or the
\* expiry set by a refresh or a login)
ReadsClock(p) ==
  \/ task[p].pc \in {"refresh_wait", "req_wait1", "login_cb", "login_tok"}
  \/ task[p].pc \in {"idle", "done"} /\ calls < MaxCalls

\* time passes; the clock advances where a step that reads it may follow
Tick ==
  /\ constructed
  /\ ticks < MaxTicks
  /\ \E p \in SeqProcs : ReadsClock(p)
  /\ \E d \in TickSteps : now' = now + d
  /\ ticks' = ticks + 1
  /\ UNCHANGED <<ctorVars, authVars, clientVars, pureVars, calls, task>>

\* GET LOGIN_URL is answered (auth.py 106-114); whatever the helper raises
\* leaves the login as AuthenticationError (auth.py 197-202)
LoginPageAnswered(p) ==
  /\ task[p].pc = "login_page"
  /\ \E content \in LoginPages :
       IF ExtractAuthRedirectUrl(content).ok
       THEN Commit(p, AuthNow, [task[p] EXCEPT !.pc = "login_auth", !.authHttp = @ + 1])
       ELSE Commit(p, AuthNow, Raise(task[p], "AuthenticationError"))
  /\ UNCHANGED <<ctorVars, clientVars, pureVars, now, ticks, calls>>

\* GET auth_url is answered with the login form (auth.py 114-137)
LoginAuthAnswered(p) ==
  /\ task[p].pc = "login_auth"
  /\ \E doc \in Docs :
       IF GetHiddenInputs(doc).ok
       THEN Commit(p, AuthNow, [task[p] EXCEPT !.pc = "login_post", !.authHttp = @ + 1])
       ELSE Commit(p, AuthNow, Raise(task[p], "AuthenticationError"))
  /\ UNCHANGED <<ctorVars, clientVars, pureVars, now, ticks, calls>>

\* the body of a response says "invalid" or "error", in any case of letters
SaysInvalidOrError(text) ==
  \E word \in {<<"i", "n", "v", "a", "l", "i", "d">>, <<"e", "r", "r", "o", "r">>} :
    \E i \in 0..Len(text) :
      /\ i + Len(word) <= Len(text)
      /\ \A k \in 1..Len(word) : LowerChar(text[i + k]) = word[k]

\* the POST of the credentials is answered (auth.py 137-160)
LoginPostAnswered(p) ==
  /\ task[p].pc = "login_post"
  /\ \E s \in LoginStatuses, text \in Texts :
       LET t1 == [task[p] EXCEPT
                    !.postRejected = (s = 200 /\ SaysInvalidOrError(text.banner))]
       IN  IF s = 200
           THEN IF LooksFailed(text.banner)
                THEN Commit(p, AuthNow, Raise(t1, "AuthenticationError"))
                ELSE Commit(p, AuthNow, CallbackParsed(t1, text.doc))
           ELSE IF s \in {301, 302}
                THEN Commit(p, AuthNow, [t1 EXCEPT !.pc = "login_redir", !.authHttp = @ + 1])
                ELSE Commit(p, AuthNow, CallbackParsed(t1, text.doc))
  /\ UNCHANGED <<ctorVars, clientVars, pureVars, now, ticks, calls>>

\* the GET of the redirect location is answered (auth.py 146-160)
LoginRedirectAnswered(p) ==
  /\ task[p].pc = "login_redir"
  /\ \E text \in Texts : Commit(p, AuthNow, CallbackParsed(task[p], text.doc))
  /\ UNCHANGED <<ctorVars, clientVars, pureVars, now, ticks, calls>>

\* the POST to the OIDC callback is answered (auth.py 161-183, 187-195)
LoginCallbackAnswered(p) ==
  /\ task[p].pc = "login_cb"
  /\ LET tok == ExtractAccessTokenFromForm(task[p].callback_form)
     IN  IF Truthy(tok)
         THEN LET r == LoginFinish(AuthNow, task[p], tok, now)
              IN  Commit(p, r.a, r.t)
         ELSE Commit(p, AuthNow,
                [task[p] EXCEPT
                   !.pc = "login_tok", !.authHttp = @ + 1,
                   !.grants = Append(@, IF Truthy(refresh_token)
                                        THEN refresh_token ELSE "")])
  /\ UNCHANGED <<ctorVars, clientVars, pureVars, now, ticks, calls>>

\* _try_token_from_session: the token endpoint answers (auth.py 219-224, 187-195)
LoginTokenAnswered(p) ==
  /\ task[p].pc = "login_tok"
  /\ \E s \in TokenStatuses, body \in TokenBodies :
       LET a1 == IF s = 200 THEN SessionTokenStore(AuthNow, body) ELSE AuthNow
           tok == IF s = 200 THEN DictGet(body.access_token, NONE) ELSE NONE
           t1 == [task[p] EXCEPT
                    !.fallback = IF s = 200 /\ body.access_token \in AccessTokens
                                 THEN "token" ELSE "nothing"]
           r == LoginFinish(a1, t1, tok, now)
       IN  Commit(p, r.a, r.t)
  /\ UNCHANGED <<ctorVars, clientVars, pureVars, now, ticks, calls>>

\* _try_token_from_session raises; auth.py 184-185 swallows it
LoginTokenTransportError(p) ==
  /\ task[p].pc = "login_tok"
  /\ LET r == LoginFinish(AuthNow, [task[p] EXCEPT !.fallback = "nothing"], NONE, now)
     IN  Commit(p, r.a, r.t)
  /\ UNCHANGED <<ctorVars, clientVars, pureVars, now, ticks, calls>>

\* a request of the login flow raises aiohttp.ClientError (auth.py 199-200)
LoginTransportError(p) ==
  /\ task[p].pc \in {"login_page", "login_auth", "login_post", "login_redir", "login_cb"}
  /\ Commit(p, AuthNow, Raise(task[p], "AuthenticationError"))
  /\ UNCHANGED <<ctorVars, clientVars, pureVars, now, ticks, calls>>

Step(p) ==
  \/ CallRequest(p)
  \/ CallGetAccessToken(p)
  \/ CallRefreshToken(p)
  \/ CallLogin(p)
  \/ RefreshRejected(p)
  \/ RefreshTransportError(p)
  \/ RefreshAnswered(p)
  \/ FirstResponse(p)
  \/ RetryResponse(p)
  \/ ResourceTransportError(p)
  \/ LoginPageAnswered(p)
  \/ LoginAuthAnswered(p)
  \/ LoginPostAnswered(p)
  \/ LoginRedirectAnswered(p)
  \/ LoginCallbackAnswered(p)
  \/ LoginTokenAnswered(p)
  \/ LoginTokenTransportError(p)
  \/ LoginTransportError(p)

Next == Tick \/ \E p \in SeqProcs : Step(p)

Spec == Init /\ [][Next]_vars

\* every awaited HTTP call is answered or raises, and the event loop then
\* resumes the coroutine that awaits it
FairSpec == Spec /\ WF_vars(Next)

(***************************************************************************)
(* Concurrent requests.  The coroutines of one client run on one event     *)
(* loop: a second _request may start, and any awaited response may arrive, *)
(* while another _request is suspended at an await.  The auth object has   *)
(* no password (BuildingLinkClient.__init__ takes none), bound as the      *)
(* constructor binds the refresh token or as its docstring says.           *)
(***************************************************************************)
ConcInit ==
  \E rt \in ClientRefreshTokens, uuid \in Uuids :
    \/ InitWith(ClientInit(rt), <<rt, NONE, NONE>>, TRUE, rt, NONE, NoSession, uuid)
    \/ InitWith(AuthInit(NONE, NONE, rt), <<NONE, NONE, rt>>, FALSE, rt, NONE,
                NoSession, uuid)

\* time passes while some coroutine of the loop may next read the clock
ConcTick ==
  /\ constructed
  /\ ticks < MaxTicks
  /\ \E p \in ConcProcs : ReadsClock(p)
  /\ \E d \in TickSteps : now' = now + d
  /\ ticks' = ticks + 1
  /\ UNCHANGED <<ctorVars, authVars, clientVars, pureVars, calls, task>>

\* each of the two coroutines is one call of a resource accessor
ConcCallRequest(p) == task[p].pc = "idle" /\ CallRequest(p)

ConcNext ==
  \/ ConcTick
  \/ \E p \in ConcProcs :
       \/ ConcCallRequest(p)
       \/ RefreshRejected(p)
       \/ RefreshTransportError(p)
       \/ RefreshAnswered(p)
       \/ FirstResponse(p)
       \/ RetryResponse(p)
       \/ ResourceTransportError(p)

ConcSpec == ConcInit /\ [][ConcNext]_vars

(***************************************************************************)
(* The client layer: the property context, the contacts accessor and the   *)
(* session's end.  Here the client is built with any device_id and session *)
(* arguments, and the caller may close the session it supplied.            *)
(***************************************************************************)
\* the arguments of async_set_property
PropertyIds == {"", "P"}
LegacyIds == {7}
UserIds == {NONE, "U"}

\* mutant: the session is closed whoever owns it
AsyncClose_IgnoresOwner ==
  IF session # NoSession /\ ~IsClosed(session)
  THEN closed' = closed \cup {[s |-> session, by |-> "client"]}
  ELSE closed' = closed

\* async_close (client.py 264-265)
AsyncClose ==
  IF owns_session /\ session # NoSession /\ ~IsClosed(session)
  THEN closed' = closed \cup {[s |-> session, by |-> "client"]}
  ELSE closed' = closed

\* async_close, or the exit of "async with client" (client.py 262-273)
CallClose(p) ==
  /\ CanCall(p)
  /\ calls' = calls + 1
  /\ AsyncClose
  /\ task' = [task EXCEPT ![p] = Return(NewTask("close"), NONE)]
  /\ UNCHANGED <<ctorVars, authVars, device_id, session, owns_session, created,
                 propertyVars, pureVars, now, ticks>>

\* async_set_property (client.py 146-152)
CallSetProperty(p) ==
  /\ CanCall(p)
  /\ calls' = calls + 1
  /\ \E pid \in PropertyIds, lid \in LegacyIds, uid \in UserIds :
       /\ property_id' = pid
       /\ property_legacy_id' = lid
       /\ user_id' = uid
  /\ task' = [task EXCEPT ![p] = Return(NewTask("set_property"), NONE)]
  /\ UNCHANGED <<ctorVars, authVars, device_id, sessionVars, pureVars, now, ticks>>

\* mutant: the contacts request is sent whatever the property context
GetContactsGuard_Absent(pid, uid) == FALSE

\* async_get_contacts, its guard (client.py 224): TRUE where it returns []
GetContactsGuard(pid, uid) == ~Truthy(pid) \/ ~Truthy(uid)

\* async_get_contacts up to the first suspension of its _request
\* (client.py 224-231)
CallGetContacts(p) ==
  /\ CanCall(p)
  /\ calls' = calls + 1
  /\ IF GetContactsGuard(property_id, user_id)
     THEN /\ task' = [task EXCEPT ![p] = Return(NewTask("get_contacts"), "[]")]
          /\ UNCHANGED <<authVars, sessionVars>>
     ELSE /\ GetSession
          /\ Commit(p, AuthNow,
               GetAccessToken(AuthNow,
                 [NewTask("request") EXCEPT !.url = property_id, !.params_l = user_id],
                 now))
  /\ UNCHANGED <<ctorVars, device_id, propertyVars, pureVars, now, ticks>>

\* the caller closes the session it supplied, while no call is running
CallerClosesSession ==
  /\ constructed
  /\ session = CallerSession /\ ~IsClosed(session)
  /\ \A p \in SeqProcs : task[p].pc \in {"idle", "done"}
  /\ closed' = closed \cup {[s |-> session, by |-> "caller"]}
  /\ UNCHANGED <<ctorVars, authVars, device_id, session, owns_session, created,
                 propertyVars, pureVars, now, ticks, calls, task>>

ClientStep(p) ==
  \/ CallClose(p)
  \/ CallSetProperty(p)
  \/ CallGetContacts(p)

\* BuildingLinkClient.__init__ takes no password: its auth object has none,
\* whether the refresh token is bound as the constructor binds it (to the
\* username) or as its docstring says (to the refresh token)
ClientInitial ==
  \E rt \in ClientRefreshTokens, dev \in DeviceArgs, sess \in SessionArgs, uuid \in Uuids :
    \/ InitWith(ClientInit(rt), <<rt, NONE, NONE>>, TRUE, rt, dev, sess, uuid)
    \/ InitWith(AuthInit(NONE, NONE, rt), <<NONE, NONE, rt>>, FALSE, rt, dev, sess, uuid)

\* without a password the login flow never starts (auth.py 101, 281)
ClientNext ==
  \/ Tick
  \/ CallerClosesSession
  \/ \E p \in SeqProcs :
       \/ CallRequest(p)
       \/ ClientStep(p)
       \/ RefreshRejected(p)
       \/ RefreshTransportError(p)
       \/ RefreshAnswered(p)
       \/ FirstResponse(p)
       \/ RetryResponse(p)
       \/ ResourceTransportError(p)

ClientSpec == ClientInitial /\ [][ClientNext]_vars

(***************************************************************************)
(* The module-level helpers of auth.py, called on their own: the argument  *)
(* is drawn from the pages below, the call stores what the helper returns  *)
(* or raises.                                                              *)
(***************************************************************************)
\* bounds of the pages
MaxPieces == 5
MaxInputs == 2

\* a page is a concatenation of up to MaxPieces of these byte strings
Pieces == {AuthMarker, <<"\"">>, <<"'">>, <<";">>, <<"x">>, <<"C3">>, <<"A9">>}

RECURSIVE Flatten(_)
Flatten(ps) == IF ps = <<>> THEN <<>> ELSE Head(ps) \o Flatten(Tail(ps))

Contents == {Flatten(ps) : ps \in UNION {[1..n -> Pieces] : n \in 0..MaxPieces}}

\* a document is a sequence of up to MaxInputs input elements
Inputs ==
  [in_form : BOOLEAN, type : {"hidden", "text"}, name : {ABSENT, "a", "b"},
   value : {ABSENT, "1", "2"}]

HtmlTexts == UNION {[1..n -> Inputs] : n \in 0..MaxInputs}

HelperCalls ==
  {[fn |-> "_extract_auth_redirect_url", arg |-> c] : c \in Contents}
    \cup {[fn |-> "_get_hidden_inputs", arg |-> d] : d \in HtmlTexts}

HelperInit ==
  /\ Constructed(AuthInit("u", "p", NONE), <<"u", "p", NONE>>, FALSE, NONE, NONE,
                 NoSession, "g1")
  /\ fn_arg \in HelperCalls
  /\ fn_result = Pending

CallExtractAuthRedirectUrl ==
  /\ fn_arg.fn = "_extract_auth_redirect_url" /\ ~fn_result.done
  /\ LET r == ExtractAuthRedirectUrl(fn_arg.arg)
     IN  fn_result' = [done |-> TRUE, ok |-> r.ok, exc |-> r.exc, value |-> r.url]
  /\ UNCHANGED <<ctorVars, authVars, clientVars, now, ticks, calls, task, fn_arg>>

CallGetHiddenInputs ==
  /\ fn_arg.fn = "_get_hidden_inputs" /\ ~fn_result.done
  /\ LET r == GetHiddenInputs(fn_arg.arg)
     IN  fn_result' = [done |-> TRUE, ok |-> r.ok,
                       exc |-> IF r.ok THEN NONE ELSE "KeyError", value |-> r.form]
  /\ UNCHANGED <<ctorVars, authVars, clientVars, now, ticks, calls, task, fn_arg>>

HelperNext == CallExtractAuthRedirectUrl \/ CallGetHiddenInputs

HelperSpec == HelperInit /\ [][HelperNext]_vars

Last(q) == q[Len(q)]

IsRequest(p) == task[p].entry = "request"
Running(p) == task[p].pc \notin {"idle", "done"}
Done(p) == task[p].pc = "done"

(***************************************************************************)
(* C1.  When the first response of _request is a 401, the retry is         *)
(* preceded by a new token acquisition from the token endpoint or the      *)
(* login flow, never by reuse of the cached access token, and carries the  *)
(* token so obtained.                                                      *)
(***************************************************************************)
C1_RetryForcesRefresh ==
  \A p \in ConcProcs :
    IsRequest(p) /\ Len(task[p].bearers) = 2 =>
      /\ task[p].statuses[1] = 401
      /\ task[p].acq[2][1] \in {"refresh", "login"}
      /\ task[p].bearers[2] = task[p].acq[2][2]

(***************************************************************************)
(* C2.  One _request retries exactly once on a 401 and never more: at most *)
(* two resource calls, the second only after a first 401; a retry answered *)
(* with a status >= 400 (a second 401 included) ends in APIError with that *)
(* status, any other in the return of the retry's JSON body; and every     *)
(* _request ends with a result or an error.                                *)
(***************************************************************************)
C2_Shape(p) ==
  /\ Len(task[p].bearers) <= 2
  /\ Len(task[p].statuses) <= Len(task[p].bearers)
  /\ Len(task[p].bearers) = 2 => task[p].statuses[1] = 401
  /\ task[p].pc = "req_wait2" => Len(task[p].bearers) = 2 /\ Len(task[p].statuses) = 1
  /\ Done(p) /\ Len(task[p].statuses) >= 1 /\ task[p].statuses[1] = 401
       /\ task[p].outcome \in {"returned", "APIError"}
       => Len(task[p].statuses) = 2
  /\ Done(p) /\ Len(task[p].statuses) = 2 =>
       IF task[p].statuses[2] >= 400
       THEN task[p].outcome = "APIError" /\ task[p].apiStatus = task[p].statuses[2]
       ELSE task[p].outcome = "returned" /\ task[p].retval = task[p].lastJson

C2_RetryOnceAndTerminate ==
  /\ [](\A p \in ConcProcs : IsRequest(p) => C2_Shape(p))
  /\ \A p \in SeqProcs : (IsRequest(p) /\ Running(p)) ~> Done(p)

\* a retry answered with a second 401 has ended in APIError 401
C2_Witness ==
  \E p \in ConcProcs :
    /\ IsRequest(p) /\ Done(p)
    /\ task[p].statuses = <<401, 401>>
    /\ task[p].outcome = "APIError" /\ task[p].apiStatus = 401

(***************************************************************************)
(* C3.  A BuildingLinkClient constructed with refresh token R holds R as   *)
(* its refresh token: before any call client.refresh_token is R, and the   *)
(* client's first request starts by POSTing a refresh-token grant with R.  *)
(***************************************************************************)
C3_ClientHoldsRefreshToken ==
  viaClient /\ constructed =>
    /\ calls = 0 => refresh_token = ctor_refresh
    /\ \A p \in ConcProcs :
         calls = 1 /\ IsRequest(p) /\ task[p].acq = <<>> /\ task[p].refreshStatus = 0
           => task[p].pc = "refresh_wait" /\ task[p].grants = <<ctor_refresh>>

(***************************************************************************)
(* C4.  Within a _request every resource call follows a successful         *)
(* async_get_access_token of the same _request and carries its token; when *)
(* the acquisition raises, _request raises and sends no resource call.     *)
(***************************************************************************)
C4_TokenBeforeResourceCall ==
  \A p \in ConcProcs :
    IsRequest(p) =>
      /\ Len(task[p].bearers) = Len(task[p].acq)
      /\ \A i \in 1..Len(task[p].bearers) : task[p].bearers[i] = task[p].acq[i][2]
      /\ Done(p) /\ Len(task[p].acq) < 2 /\ Len(task[p].acq) = Len(task[p].statuses)
           /\ (task[p].statuses = <<>> \/ Last(task[p].statuses) = 401)
           => /\ task[p].outcome \in {"AuthenticationError", "KeyError"}
              /\ Len(task[p].bearers) = Len(task[p].statuses)

\* the acquisition for the retry raised: one resource call was sent, no second
C4_Witness ==
  \E p \in ConcProcs :
    /\ IsRequest(p) /\ Done(p)
    /\ task[p].statuses = <<401>>
    /\ Len(task[p].acq) = 1 /\ Len(task[p].bearers) = 1
    /\ task[p].outcome = "AuthenticationError"

\* the auth object's store
StoreNow == <<access_token, token_expiry, refresh_token>>

\* in this step task p enters async_get_access_token: a call of it or of
\* _request starts, or _request handles a first 401
GetTokenInvoked(p) ==
  \/ /\ calls' = calls + 1
     /\ task'[p] # task[p]
     /\ task'[p].entry \in {"request", "get_token"}
  \/ /\ task[p].pc = "req_wait1"
     /\ task'[p].statuses = <<401>>

(***************************************************************************)
(* C5.  async_get_access_token refreshes or logs in only if the token is   *)
(* invalid: entered while is_token_valid holds, it returns the stored      *)
(* access token, sends no HTTP request, and leaves the access token, the   *)
(* expiry and the refresh token as they were.                              *)
(***************************************************************************)
C5_ValidTokenIsReused ==
  [][\A p \in ConcProcs :
       GetTokenInvoked(p) /\ (access_token # NONE /\ now < token_expiry - 30) =>
         /\ StoreNow' = StoreNow
         /\ task'[p].authHttp = 0 /\ task'[p].grants = <<>> /\ ~task'[p].loginRan
         /\ Last(task'[p].acq) = <<"cached", access_token>>
         /\ task'[p].entry = "get_token" =>
              /\ task'[p].pc = "done" /\ task'[p].outcome = "returned"
              /\ task'[p].retval = access_token]_vars

\* async_get_access_token, called while the token is valid, has returned it
C5_Witness ==
  \E p \in ConcProcs :
    /\ task[p].entry = "get_token" /\ Done(p)
    /\ task[p].acq = << <<"cached", access_token>> >>
    /\ task[p].retval = access_token /\ task[p].authHttp = 0
    /\ access_token \in AccessTokens

(***************************************************************************)
(* C6.  The validity check applies a 30-second buffer: in every state      *)
(* is_token_valid is true exactly when an access token is stored and the   *)
(* current time is strictly less than the expiry minus 30 seconds.         *)
(***************************************************************************)
C6_ValidityBuffer ==
  IsTokenValid(access_token, token_expiry, now)
    <=> (access_token # NONE /\ now + 30 < token_expiry)

\* a stored token exactly 30 seconds before its expiry: no longer valid
C6_Witness ==
  /\ access_token \in AccessTokens
  /\ now = token_expiry - 30
  /\ ~IsTokenValid(access_token, token_expiry, now)

\* task p runs async_get_access_token, called directly or by _request
InGetToken(p) == task[p].entry \in {"get_token", "request"}

\* in this step a call of method e by task p starts
CallStarts(p, e) ==
  calls' = calls + 1 /\ task'[p] # task[p] /\ task'[p].entry = e

(***************************************************************************)
(* C7, as claimed.  async_get_access_token starts the login flow only when *)
(* no usable refresh token exists: with a refresh token stored the grant   *)
(* is tried first, the login starts only when none is stored or the        *)
(* refresh failed, and a successful refresh is never followed by a login   *)
(* in the same call.                                                       *)
(***************************************************************************)
C7_LoginOnlyWithoutUsableRefresh ==
  \A p \in ConcProcs :
    InGetToken(p) /\ task[p].pc = "login_page" =>
      \/ task[p].refreshed = "failed"
      \/ task[p].refreshed = "none" /\ ~Truthy(refresh_token)

(***************************************************************************)
(* C7, amended.  The login flow starts only when no refresh token is       *)
(* stored, when the refresh failed, or when the refresh was answered 200   *)
(* with an empty access token; a refresh that stored a non-empty access    *)
(* token is never followed by a login in the same call.                    *)
(***************************************************************************)
C7_LoginOnlyWithoutUsableToken ==
  \A p \in ConcProcs :
    InGetToken(p) /\ task[p].pc = "login_page" =>
      \/ task[p].refreshed = "failed"
      \/ task[p].refreshed = "none" /\ ~Truthy(refresh_token) /\ task[p].grants = <<>>
      \/ task[p].refreshed = "ok" /\ ~Truthy(access_token)

\* the login flow has started after the refresh grant was rejected
C7_Witness ==
  \E p \in ConcProcs :
    /\ task[p].entry = "get_token" /\ task[p].pc = "login_page"
    /\ task[p].refreshed = "failed" /\ task[p].refreshStatus = 400
    /\ task[p].grants = <<"r0">>

(***************************************************************************)
(* C8.  A successful async_refresh_token updates the store from the 200    *)
(* response: the access token becomes the response's access_token, the     *)
(* expiry the current time plus its expires_in (900 when absent), and the  *)
(* refresh token its refresh_token when present, otherwise it is kept.     *)
(***************************************************************************)
C8_RefreshUpdatesStore ==
  [][\A p \in ConcProcs :
       task[p].entry = "refresh" /\ task[p].pc = "refresh_wait" =>
         LET r == task'[p].result IN
         /\ task'[p].outcome = "returned" =>
              /\ task'[p].refreshStatus = 200
              /\ access_token' = r.access_token
              /\ token_expiry' = now + (IF r.expires_in = <<>> THEN 900 ELSE r.expires_in[1])
              /\ refresh_token' = (IF r.refresh_token = ABSENT THEN refresh_token
                                   ELSE r.refresh_token)
         /\ task'[p].refreshStatus = 200 /\ r.access_token # ABSENT
              => task'[p].outcome = "returned"]_vars

\* a refresh has returned on a body with neither expires_in nor refresh_token
C8_Witness ==
  \E p \in ConcProcs :
    /\ task[p].entry = "refresh" /\ Done(p) /\ task[p].outcome = "returned"
    /\ task[p].result.expires_in = <<>> /\ task[p].result.refresh_token = ABSENT
    /\ access_token = task[p].result.access_token
    /\ token_expiry = now + 900
    /\ refresh_token = "r0"

(***************************************************************************)
(* C9.  async_refresh_token raises AuthenticationError when no refresh     *)
(* token is stored (and then sends no request), when the token endpoint    *)
(* answers with a status other than 200, and when the POST fails at        *)
(* transport level; in each case the access token, the expiry and the      *)
(* refresh token are left unchanged.                                       *)
(***************************************************************************)
C9_RefreshFailureRaises ==
  [][\A p \in ConcProcs :
       /\ CallStarts(p, "refresh") =>
            /\ StoreNow' = StoreNow
            /\ ~Truthy(refresh_token) =>
                 /\ task'[p].pc = "done" /\ task'[p].outcome = "AuthenticationError"
                 /\ task'[p].authHttp = 0 /\ task'[p].grants = <<>>
            /\ Truthy(refresh_token) =>
                 /\ task'[p].pc = "refresh_wait" /\ task'[p].grants = <<refresh_token>>
       /\ task[p].entry = "refresh" /\ task[p].pc = "refresh_wait"
            /\ task'[p].refreshStatus \notin {0, 200} =>
              /\ task'[p].pc = "done" /\ task'[p].outcome = "AuthenticationError"
              /\ StoreNow' = StoreNow]_vars

\* a refresh failed at transport level and the token stored before is still there
C9_Witness ==
  \E p \in ConcProcs :
    /\ task[p].entry = "refresh" /\ Done(p)
    /\ task[p].outcome = "AuthenticationError"
    /\ task[p].refreshStatus = TransportError
    /\ access_token \in AccessTokens /\ Truthy(refresh_token)

\* task p is inside async_login_with_credentials, awaiting one of its requests
InLogin(p) ==
  task[p].pc \in {"login_page", "login_auth", "login_post", "login_redir",
                  "login_cb", "login_tok"}

(***************************************************************************)
(* C10.  async_login_with_credentials returns the access token, which is   *)
(* then the stored one with expiry the current time plus 900 seconds, and  *)
(* every failure of the login sequence (missing username or password,      *)
(* missing redirect URL, transport error, empty callback form, no          *)
(* extractable token) is an AuthenticationError, never another exception.  *)
(***************************************************************************)
C10_LoginReturnsOrAuthError ==
  [][\A p \in ConcProcs :
       /\ task'[p].entry = "login" /\ task'[p].pc = "done" =>
            task'[p].outcome \in {"returned", "AuthenticationError"}
       /\ InLogin(p) /\ task'[p].pc = "done" =>
            task'[p].outcome \in {"returned", "AuthenticationError"}
       /\ CallStarts(p, "login") /\ (~Truthy(username) \/ ~Truthy(password)) =>
            /\ task'[p].pc = "done" /\ task'[p].outcome = "AuthenticationError"
            /\ task'[p].authHttp = 0
       /\ task[p].entry = "login" /\ Running(p) /\ task'[p].outcome = "returned" =>
            /\ Truthy(task'[p].retval)
            /\ access_token' = task'[p].retval
            /\ token_expiry' = now + 900]_vars

\* a login has returned the token it stored, which expires in 900 seconds
C10_Witness ==
  \E p \in ConcProcs :
    /\ task[p].entry = "login" /\ Done(p) /\ task[p].outcome = "returned"
    /\ task[p].retval = access_token
    /\ token_expiry = now + 900
    /\ task[p].authHttp >= 4

C12_InitialState ==
  constructed /\ calls = 0 =>
    /\ access_token = NONE
    /\ ~IsTokenValid(access_token, token_expiry, now)
    /\ refresh_token = auth_args[3]

\* an auth object built from credentials only, later but before any call
C12_Witness ==
  /\ constructed /\ calls = 0 /\ ticks = 1
  /\ auth_args = <<"u", "p", NONE>>
  /\ refresh_token = NONE /\ access_token = NONE

(***************************************************************************)
(* C13.  Every resource call of _request, first attempt and retry alike,   *)
(* carries as bearer the token async_get_access_token returned last and as *)
(* device-id the client's device identifier, which is the one given to the *)
(* constructor, or a generated one, and never changes.                     *)
(***************************************************************************)
C13_BearerAndDeviceId ==
  /\ [](\A p \in ConcProcs :
          IsRequest(p) =>
            /\ Len(task[p].sent) = Len(task[p].bearers)
            /\ Len(task[p].acq) = Len(task[p].bearers)
            /\ \A i \in 1..Len(task[p].sent) :
                 /\ task[p].bearers[i] = task[p].acq[i][2]
                 /\ task[p].sent[i].device = device_id)
  /\ [](constructed =>
          IF Truthy(ctor_device) THEN device_id = ctor_device ELSE device_id \in Uuids)
  /\ [][device_id' = device_id]_vars

\* a first attempt and its retry, both with the generated device id
C13_Witness ==
  \E p \in ConcProcs :
    /\ IsRequest(p) /\ Len(task[p].sent) = 2
    /\ ctor_device = NONE /\ device_id \in Uuids
    /\ task[p].sent[1].device = device_id /\ task[p].sent[2].device = device_id
    /\ task[p].bearers[2] = task[p].acq[2][2]

\* in this step task p calls async_get_contacts
ContactsCalled(p) ==
  /\ calls' = calls + 1
  /\ \/ task'[p].entry = "get_contacts"
     \/ task'[p].entry = "request" /\ task'[p].url # NONE

(***************************************************************************)
(* C14.  async_get_contacts needs the property id and the user id: while   *)
(* either is unset it returns an empty list, acquires no token and sends   *)
(* no HTTP request; once async_set_property has set both to non-empty      *)
(* values it issues the contacts request for that property and that user.  *)
(***************************************************************************)
C14_ContactsNeedPropertyAndUser ==
  /\ [][\A p \in SeqProcs :
          ContactsCalled(p) =>
            IF ~Truthy(property_id) \/ ~Truthy(user_id)
            THEN /\ task'[p].entry = "get_contacts"
                 /\ task'[p].pc = "done" /\ task'[p].outcome = "returned"
                 /\ task'[p].retval = "[]"
                 /\ task'[p].acq = <<>> /\ task'[p].sent = <<>>
                 /\ task'[p].authHttp = 0 /\ task'[p].grants = <<>>
                 /\ StoreNow' = StoreNow
                 /\ sessionVars' = sessionVars
            ELSE /\ task'[p].entry = "request"
                 /\ task'[p].url = property_id /\ task'[p].params_l = user_id]_vars
  /\ [](\A p \in SeqProcs :
          IsRequest(p) /\ task[p].url # NONE =>
            /\ task[p].url \in PropertyIds \ {""} /\ task[p].params_l \in UserIds \ {NONE}
            /\ \A i \in 1..Len(task[p].sent) :
                 task[p].sent[i].url = task[p].url /\ task[p].sent[i].l = task[p].params_l)

\* the contacts request of property P and user U has been sent
C14_Witness ==
  \E p \in SeqProcs :
    /\ IsRequest(p) /\ property_id = "P" /\ user_id = "U"
    /\ Len(task[p].sent) >= 1
    /\ task[p].sent[1].url = "P" /\ task[p].sent[1].l = "U"

\* in this step async_close runs
CloseCalled(p) == calls' = calls + 1 /\ task'[p].entry = "close"

(***************************************************************************)
(* C15.  The client closes only sessions it created: after async_close (or *)
(* the context manager's exit), whatever requests came before, the session *)
(* the caller supplied has not been closed by the client, and no session   *)
(* the client created is still open.                                       *)
(***************************************************************************)
C15_ClosesOnlyOwnSessions ==
  /\ []([s |-> CallerSession, by |-> "client"] \notin closed)
  /\ [][\A p \in SeqProcs :
          CloseCalled(p) =>
            \A n \in 1..created' : \E c \in closed' : c.s = OwnSession(n)]_vars

\* the caller closed its session, a request replaced it, async_close closed
\* the replacement
C15_Witness ==
  \E p \in SeqProcs :
    /\ task[p].entry = "close" /\ Done(p)
    /\ closed = {[s |-> CallerSession, by |-> "caller"], [s |-> OwnSession(1), by |-> "client"]}
    /\ session = OwnSession(1) /\ owns_session

\* pat occurs in content at the 0-based index i
OccursAt(content, pat, i) ==
  /\ i >= 0 /\ i + Len(pat) <= Len(content)
  /\ \A k \in 1..Len(pat) : content[i + k] = pat[k]

Least(S) == CHOOSE i \in S : \A j \in S : i <= j

\* where "https://auth" occurs, and where pat occurs at or after its first
\* occurrence
MarkerStarts(content) == {i \in 0..Len(content) : OccursAt(content, AuthMarker, i)}
After(content, pat) ==
  {j \in Least(MarkerStarts(content))..Len(content) : OccursAt(content, pat, j)}

\* the terminators the search stops at: "; where one follows, else ';
Terminators(content) ==
  IF After(content, DqSemi) # {} THEN After(content, DqSemi) ELSE After(content, SqSemi)

\* the bytes from the first "https://auth" up to the terminator
UrlBytes(content) ==
  SubSeq(content, Least(MarkerStarts(content)) + 1, Least(Terminators(content)))

ExtractCalled == fn_arg.fn = "_extract_auth_redirect_url" /\ fn_result.done

(***************************************************************************)
(* C16, as claimed.  For content containing "https://auth" followed by a   *)
(* terminator, _extract_auth_redirect_url returns the text from the first  *)
(* "https://auth" up to, not including, the terminator ("; or, when no ";  *)
(* follows, ';); for content without "https://auth", or with no terminator *)
(* after it, it raises AuthenticationError.                                *)
(***************************************************************************)
C16_ExtractsRedirectUrl ==
  ExtractCalled =>
    LET c == fn_arg.arg
    IN  IF MarkerStarts(c) = {} \/ Terminators(c) = {}
        THEN ~fn_result.ok /\ fn_result.exc = "AuthenticationError"
        ELSE /\ fn_result.ok
             /\ Utf8Decode(UrlBytes(c)).ok => fn_result.value = Utf8Decode(UrlBytes(c)).text

(***************************************************************************)
(* C16, amended.  As claimed where the bytes between "https://auth" and    *)
(* the terminator are valid UTF-8: the result is their decoding.  Where    *)
(* they are not, the call raises UnicodeDecodeError.                       *)
(***************************************************************************)
C16_ExtractsDecodableRedirectUrl ==
  ExtractCalled =>
    LET c == fn_arg.arg
    IN  IF MarkerStarts(c) = {} \/ Terminators(c) = {}
        THEN ~fn_result.ok /\ fn_result.exc = "AuthenticationError"
        ELSE IF Utf8Decode(UrlBytes(c)).ok
             THEN fn_result.ok /\ fn_result.value = Utf8Decode(UrlBytes(c)).text
             ELSE ~fn_result.ok /\ fn_result.exc = "UnicodeDecodeError"

\* a URL closed by '; and followed by a later "; is returned up to the ";
C16_Witness ==
  /\ ExtractCalled /\ fn_result.ok
  /\ fn_arg.arg = AuthMarker \o <<"'", ";", "\"", ";">>
  /\ fn_result.value = AuthMarker \o <<"'", ";">>

GetHiddenCalled == fn_arg.fn = "_get_hidden_inputs" /\ fn_result.done

\* the inputs of type hidden that lie inside a form and have a name
NamedHidden(doc) ==
  {i \in 1..Len(doc) : doc[i].in_form /\ doc[i].type = "hidden" /\ doc[i].name # ABSENT}

(***************************************************************************)
(* C17.  _get_hidden_inputs returns exactly the name-to-value map of the   *)
(* hidden inputs that lie inside a form and have a name: no other input    *)
(* contributes a key, and every named hidden input of the form appears     *)
(* with its value.                                                         *)
(***************************************************************************)
C17_HiddenInputsMap ==
  GetHiddenCalled =>
    LET doc == fn_arg.arg
    IN  /\ fn_result.ok
        /\ DOMAIN fn_result.value = {doc[i].name : i \in NamedHidden(doc)}
        /\ \A i \in NamedHidden(doc) : fn_result.value[doc[i].name] = doc[i].value

(***************************************************************************)
(* C18.  A first response with a status >= 400 other than 401 makes        *)
(* _request raise APIError with that status and no retry: one resource     *)
(* call was sent, no token is acquired again, and the token store is left  *)
(* as it was.                                                              *)
(***************************************************************************)
C18_ErrorStatusIsNotRetried ==
  [][\A p \in ConcProcs :
       /\ task[p].pc = "req_wait1"
       /\ Len(task'[p].statuses) = 1
       /\ task'[p].statuses[1] >= 400 /\ task'[p].statuses[1] # 401
       => /\ task'[p].pc = "done" /\ task'[p].outcome = "APIError"
          /\ task'[p].apiStatus = task'[p].statuses[1]
          /\ Len(task'[p].bearers) = 1 /\ Len(task'[p].sent) = 1
          /\ task'[p].acq = task[p].acq /\ Len(task'[p].acq) = 1
          /\ task'[p].authHttp = task[p].authHttp /\ task'[p].grants = task[p].grants
          /\ StoreNow' = StoreNow]_vars

\* a first response 500 has ended the request in APIError 500
C18_Witness ==
  \E p \in ConcProcs :
    /\ IsRequest(p) /\ Done(p)
    /\ task[p].statuses = <<500>>
    /\ task[p].outcome = "APIError" /\ task[p].apiStatus = 500
    /\ Len(task[p].bearers) = 1 /\ Len(task[p].acq) = 1

(***************************************************************************)
(* C19.  With the token invalid and no usable method,                      *)
(* async_get_access_token raises AuthenticationError: when the refresh     *)
(* attempt fails and username or password is missing, and when no refresh  *)
(* token is stored and username or password is missing, as for an object   *)
(* built with a username only; in the latter case no HTTP request is sent. *)
(***************************************************************************)
C19_NoUsableMethodRaises ==
  [][\A p \in ConcProcs :
       /\ InGetToken(p) /\ task[p].pc = "refresh_wait"
            /\ task'[p].refreshStatus \notin {0, 200}
            /\ (~Truthy(username) \/ ~Truthy(password))
          => /\ task'[p].pc = "done" /\ task'[p].outcome = "AuthenticationError"
             /\ task'[p].authHttp = 1 /\ ~task'[p].loginRan
             /\ Len(task'[p].acq) = Len(task[p].acq)
             /\ StoreNow' = StoreNow
       /\ GetTokenInvoked(p)
            /\ ~(access_token # NONE /\ now < token_expiry - 30)
            /\ ~Truthy(refresh_token)
            /\ (~Truthy(username) \/ ~Truthy(password))
          => /\ task'[p].pc = "done" /\ task'[p].outcome = "AuthenticationError"
             /\ task'[p].authHttp = 0 /\ task'[p].grants = <<>> /\ ~task'[p].loginRan
             /\ Len(task'[p].acq) = Len(task[p].acq) \/ task[p].pc \in {"idle", "done"}
             /\ StoreNow' = StoreNow]_vars

\* an auth object built with a username only: the call raised, nothing was sent
C19_Witness ==
  \E p \in ConcProcs :
    /\ task[p].entry = "get_token" /\ Done(p)
    /\ task[p].outcome = "AuthenticationError"
    /\ auth_args = <<"u", NONE, NONE>> /\ ~viaClient
    /\ task[p].authHttp = 0 /\ task[p].acq = <<>>

(***************************************************************************)
(* C20.  In the login flow a credentials POST answered 200 with a body     *)
(* that contains "invalid" or "error", in any case, is a failed login:     *)
(* AuthenticationError is raised, neither the POST to the OIDC callback    *)
(* nor the token-endpoint fallback is sent, and the login stores no access *)
(* token.                                                                  *)
(***************************************************************************)
C20_RejectedLoginStopsFlow ==
  /\ [][\A p \in ConcProcs :
          task[p].pc = "login_post" /\ task'[p].postRejected =>
            /\ task'[p].pc = "done" /\ task'[p].outcome = "AuthenticationError"
            /\ task'[p].authHttp = task[p].authHttp
            /\ task'[p].grants = task[p].grants
            /\ StoreNow' = StoreNow]_vars
  /\ [](\A p \in ConcProcs :
          task[p].postRejected => Done(p) /\ task[p].outcome = "AuthenticationError")

\* a login was rejected after its third request: the page, the form, the POST
C20_Witness ==
  \E p \in ConcProcs :
    /\ task[p].entry = "login" /\ Done(p) /\ task[p].postRejected
    /\ task[p].outcome = "AuthenticationError"
    /\ task[p].authHttp = 3 /\ task[p].grants = <<>>
    /\ access_token = NONE

\* the callback form fields a token is looked for in, by precedence
TokenFields == <<"access_token", "code", "id_token">>

HasTokenField(f) == \E i \in 1..3 : TokenFields[i] \in DOMAIN f

\* the value of the first of the three fields that the form has
FirstTokenField(f) ==
  f[TokenFields[CHOOSE i \in 1..3 :
                  /\ TokenFields[i] \in DOMAIN f
                  /\ \A j \in 1..(i - 1) : TokenFields[j] \notin DOMAIN f]]

\* in this step the login of task p ends by storing and returning tok
LoginGave(p, tok) ==
  /\ access_token' = tok /\ token_expiry' = now + 900
  /\ IF task[p].entry = "request"
     THEN /\ task'[p].pc \in {"req_wait1", "req_wait2"}
          /\ Last(task'[p].bearers) = tok
     ELSE /\ task'[p].pc = "done" /\ task'[p].outcome = "returned"
          /\ task'[p].retval = tok

\* in this step the login of task p ends in AuthenticationError, nothing stored
LoginFailed(p) ==
  /\ task'[p].pc = "done" /\ task'[p].outcome = "AuthenticationError"
  /\ access_token' = access_token /\ token_expiry' = token_expiry

\* in this step the login of task p turns to the token endpoint
FallbackSent(p) ==
  /\ task'[p].pc = "login_tok"
  /\ task'[p].authHttp = task[p].authHttp + 1
  /\ access_token' = access_token

\* what the token endpoint's answer to the fallback leads to
FallbackDecides(p) ==
  /\ task[p].pc = "login_tok" /\ task'[p].fallback = "token" =>
       LoginGave(p, access_token') /\ access_token' \in AccessTokens
  /\ task[p].pc = "login_tok" /\ task'[p].fallback = "nothing" => LoginFailed(p)

(***************************************************************************)
(* C21, as claimed.  The login takes the access token from the callback    *)
(* form by precedence access_token, code, id_token: the first of these     *)
(* present is the token returned and stored; the token endpoint is asked   *)
(* only when the form has none of the three, and the login raises          *)
(* AuthenticationError when the endpoint yields no token either.  (The     *)
(* callback POST itself may fail, which ends the login in                  *)
(* AuthenticationError.)                                                   *)
(***************************************************************************)
C21_CallbackTokenPrecedence ==
  [][\A p \in ConcProcs :
       /\ task[p].pc = "login_cb" /\ task'[p].pc # "login_cb" =>
            LET f == task[p].callback_form
            IN  IF HasTokenField(f)
                THEN LoginGave(p, FirstTokenField(f)) \/ LoginFailed(p)
                ELSE FallbackSent(p) \/ LoginFailed(p)
       /\ FallbackDecides(p)]_vars

(***************************************************************************)
(* C21, amended.  The first of access_token, code, id_token present in the *)
(* callback form is the token returned and stored when it is not empty;    *)
(* the token endpoint is asked when the form has none of the three or when *)
(* the first present is empty (the later fields are then not looked at),   *)
(* and the login raises AuthenticationError when the endpoint yields no    *)
(* token either.                                                           *)
(***************************************************************************)
C21_NonEmptyCallbackTokenPrecedence ==
  [][\A p \in ConcProcs :
       /\ task[p].pc = "login_cb" /\ task'[p].pc # "login_cb" =>
            LET f == task[p].callback_form
            IN  IF HasTokenField(f) /\ Truthy(FirstTokenField(f))
                THEN LoginGave(p, FirstTokenField(f)) \/ LoginFailed(p)
                ELSE FallbackSent(p) \/ LoginFailed(p)
       /\ FallbackDecides(p)]_vars

\* a login returned the code field's value, preferred to the id_token field,
\* after four requests: none went to the token endpoint
C21_Witness ==
  \E p \in ConcProcs :
    /\ task[p].entry = "login" /\ Done(p) /\ task[p].outcome = "returned"
    /\ task[p].retval = "a2" /\ access_token = "a2"
    /\ task[p].authHttp = 4 /\ task[p].fallback = "none" /\ task[p].grants = <<>>

(***************************************************************************)
(* C22.  Token refresh is not coordinated between concurrent requests.  A  *)
(* request that asks for the access token while the stored one is invalid  *)
(* and a refresh token is held POSTs that refresh token as its own grant,  *)
(* whatever the other request is doing (so both may POST the same refresh  *)
(* token before either response is stored); and every 200 response that    *)
(* brings an access token is stored when it arrives, over whatever an      *)
(* earlier response left: the store holds the values of the response       *)
(* stored last.                                                            *)
(***************************************************************************)
C22_UncoordinatedRefresh ==
  [][\A p \in ConcProcs :
       /\ /\ GetTokenInvoked(p)
          /\ ~IsTokenValid(access_token, token_expiry, now)
          /\ Truthy(refresh_token)
          => /\ task'[p].pc = "refresh_wait"
             /\ task'[p].grants = <<refresh_token>>
             /\ StoreNow' = StoreNow
       /\ task[p].pc = "refresh_wait" /\ task'[p].got # NONE =>
            /\ access_token' = task'[p].got
            /\ token_expiry' \in {now + e : e \in ExpiresIn \cup {RefreshDefaultExpiry}}
            /\ refresh_token' \in {refresh_token} \cup RefreshTokens \cup {NONE}]_vars

\* no time has passed, so both requests found the token invalid before either
\* response was stored: both POSTed the refresh token r0, the response to the
\* first brought a1, the response to the second a2, and the store holds a2
C22_Witness ==
  /\ ticks = 0
  /\ \A p \in ConcProcs : Done(p) /\ IsRequest(p) /\ task[p].grants = <<"r0">>
  /\ task[1].got = "a1" /\ task[2].got = "a2"
  /\ task[1].bearers = <<"a1">> /\ task[2].bearers = <<"a2">>
  /\ access_token = "a2"

(***************************************************************************)
(* C23.  Every failure of async_get_access_token surfaces as               *)
(* AuthenticationError: whatever the token endpoint and the login pages    *)
(* answer, a call that ended has returned a non-empty access token or      *)
(* raised AuthenticationError, and when its refresh did not succeed and    *)
(* username and password are available the login flow ran.                 *)
(***************************************************************************)
C23_FailuresAreAuthenticationErrors ==
  \A p \in ConcProcs :
    Done(p) /\ task[p].entry = "get_token" =>
      /\ \/ task[p].outcome = "returned" /\ Truthy(task[p].retval)
         \/ task[p].outcome = "AuthenticationError"
      /\ /\ task[p].refreshStatus # 0
         /\ task[p].refreshed # "ok"
         /\ Truthy(username) /\ Truthy(password)
         => task[p].loginRan

(***************************************************************************)
(* C24.  A held refresh token is never lost: once the token store holds a  *)
(* refresh token, every step of a refresh, a login or a request leaves it  *)
(* holding one, which is the constructor's value or the refresh_token of a *)
(* token-endpoint response.                                                *)
(***************************************************************************)
C24_RefreshTokenIsKept ==
  [][Truthy(refresh_token) =>
       /\ Truthy(refresh_token')
       /\ refresh_token' \in {ctor_refresh} \cup RefreshTokens]_vars

=============================================================================
